---- MODULE Spec2Model ----
(***************************************************************************)
(* A model of the prefix tree of src/src/lib.rs.                           *)
(*                                                                         *)
(* A PrefixTree<K, V> is a record [value, subtrees]: value is an Option<V> *)
(* and subtrees a finite map from keys to PrefixTree records, owned        *)
(* recursively, exactly as the Rust struct.  Structural equality of the    *)
(* Rust type (derive PartialEq) is equality of these records.              *)
(*                                                                         *)
(* A reference or raw pointer to a node is the path of keys that leads to  *)
(* it from the tree the method was called on: ownership is exclusive and   *)
(* recursive, so a node has exactly one address.  Reading through a        *)
(* pointer is Deref, writing through it is Store, and a pointer whose path *)
(* no longer exists in the tree is dangling (Attached is false).           *)
(*                                                                         *)
(* The methods run to completion without interleaving (&mut self / &self), *)
(* so each call is one action.  The loops of the methods are recursive     *)
(* operators over the loop state.                                          *)
(***************************************************************************)
EXTENDS Naturals, Sequences, FiniteSets

(* ---------------------------- bounds --------------------------------- *)

\* Most values held by the tree at once (an insert of a further key is not taken).
MaxStored == 3

\* The values (V) the calls draw from.
Values == {1, 2}

\* The sequences of key elements (K = char) the calls draw from: "", "a", "b",
\* "ab", "ac" and "abc".  They give a chain of depth three, siblings below the
\* root and below "a", and queries that run out of tree or out of sequence.
Seqs == {<<>>, <<"a">>, <<"b">>, <<"a", "b">>, <<"a", "c">>, <<"a", "b", "c">>}

\* The first n elements of s.
Prefix(s, n) == SubSeq(s, 1, n)

(* ---------------------------- Option<V> ------------------------------ *)

\* Option<V>: None is the empty tuple, Some(v) the one-element tuple.
None == <<>>

Some(v) == <<v>>

is_some(o) == o # None

(* ---------------------------- HashMap<K, _> -------------------------- *)

HashMap_new == [k \in {} |-> k]

HashMap_is_empty(m) == DOMAIN m = {}

HashMap_contains(m, k) == k \in DOMAIN m

HashMap_insert(m, k, v) == [x \in (DOMAIN m) \cup {k} |-> IF x = k THEN v ELSE m[x]]

HashMap_remove(m, k) == [x \in (DOMAIN m) \ {k} |-> m[x]]

(* ---------------------------- PrefixTree ----------------------------- *)

\* PrefixTree::new() / Default::default()
new == [value |-> None, subtrees |-> HashMap_new]

\* Is the path p a node of t?  (Is a pointer with address p not dangling?)
RECURSIVE Attached(_, _)
Attached(t, p) ==
    IF p = <<>> THEN TRUE
    ELSE /\ HashMap_contains(t.subtrees, Head(p))
         /\ Attached(t.subtrees[Head(p)], Tail(p))

\* The node a pointer with address p refers to.
RECURSIVE Deref(_, _)
Deref(t, p) ==
    IF p = <<>> THEN t ELSE Deref(t.subtrees[Head(p)], Tail(p))

\* The tree after the node at address p is overwritten by n.
RECURSIVE Store(_, _, _)
Store(t, p, n) ==
    IF p = <<>> THEN n
    ELSE [t EXCEPT !.subtrees[Head(p)] = Store(@, Tail(p), n)]

(* ---------------------------- insert --------------------------------- *)

\* insert_walk with subtrees.insert(item, PrefixTree::new()) in place of
\* entry(item).or_insert_with: an existing child is replaced by an empty one.
RECURSIVE insert_walk_replaces_child(_, _, _)
insert_walk_replaces_child(t, root, sequence) ==
    IF sequence = <<>> THEN [tree |-> t, root |-> root]
    ELSE LET item == Head(sequence)
             node == Deref(t, root)
             t1   == Store(t, root,
                           [node EXCEPT !.subtrees = HashMap_insert(@, item, new)])
         IN  insert_walk_replaces_child(t1, Append(root, item), Tail(sequence))

\* lib.rs 29-35: the walk of insert.  root is the &mut the loop holds; each
\* item moves it to subtrees.entry(item).or_insert_with(PrefixTree::new).
RECURSIVE insert_walk(_, _, _)
insert_walk(t, root, sequence) ==
    IF sequence = <<>> THEN [tree |-> t, root |-> root]
    ELSE LET item == Head(sequence)
             node == Deref(t, root)
             t1   == IF HashMap_contains(node.subtrees, item) THEN t
                     ELSE Store(t, root,
                                [node EXCEPT !.subtrees = HashMap_insert(@, item, new)])
         IN  insert_walk(t1, Append(root, item), Tail(sequence))

\* insert with value.get_or_insert(value) in place of replace: a value that
\* is already there is kept.
insert_keeps_old(t, sequence, value) ==
    LET w    == insert_walk(t, <<>>, sequence)
        node == Deref(w.tree, w.root)
    IN  [tree   |-> IF is_some(node.value) THEN w.tree
                    ELSE Store(w.tree, w.root, [node EXCEPT !.value = Some(value)]),
         result |-> node.value,
         root   |-> w.root]

\* lib.rs 27-37: insert; root.value.replace(value) returns the old value.
insert(t, sequence, value) ==
    LET w    == insert_walk(t, <<>>, sequence)
        node == Deref(w.tree, w.root)
    IN  [tree   |-> Store(w.tree, w.root, [node EXCEPT !.value = Some(value)]),
         result |-> node.value,
         root   |-> w.root]

(* ---------------------------- lookups -------------------------------- *)

\* get_by_shortest_prefix_loop that goes on while a child matches and so
\* returns the value of the longest prefix that holds one.
RECURSIVE get_by_longest_prefix_loop(_, _, _, _)
get_by_longest_prefix_loop(t, root, sequence, consumed) ==
    LET node == Deref(t, root)
        here == [result |-> node.value, root |-> root, consumed |-> consumed]
    IN  IF consumed = Len(sequence) THEN here
        ELSE LET item == sequence[consumed + 1]
             IN  IF HashMap_contains(node.subtrees, item)
                 THEN LET below == get_by_longest_prefix_loop(
                                       t, Append(root, item), sequence, consumed + 1)
                      IN  IF is_some(below.result) THEN below ELSE here
                 ELSE here

\* get_by_shortest_prefix_loop that calls sequence.next() before it looks at
\* the value of the node: a match has consumed one item too many.
RECURSIVE get_by_shortest_prefix_loop_next_first(_, _, _, _)
get_by_shortest_prefix_loop_next_first(t, root, sequence, consumed) ==
    LET node == Deref(t, root)
        used == IF consumed < Len(sequence) THEN consumed + 1 ELSE consumed
    IN  IF is_some(node.value)
        THEN [result |-> node.value, root |-> root, consumed |-> used]
        ELSE IF consumed = Len(sequence)
        THEN [result |-> None, root |-> root, consumed |-> consumed]
        ELSE LET item == sequence[consumed + 1]
             IN  IF HashMap_contains(node.subtrees, item)
                 THEN get_by_shortest_prefix_loop_next_first(
                          t, Append(root, item), sequence, consumed + 1)
                 ELSE [result |-> None, root |-> root, consumed |-> consumed + 1]

\* lib.rs 46-58: the loop of get_by_shortest_prefix.  consumed counts the
\* calls of sequence.next() that returned an item.
RECURSIVE get_by_shortest_prefix_loop(_, _, _, _)
get_by_shortest_prefix_loop(t, root, sequence, consumed) ==
    LET node == Deref(t, root)
    IN  IF is_some(node.value)
        THEN [result |-> node.value, root |-> root, consumed |-> consumed]
        ELSE IF consumed = Len(sequence)
        THEN [result |-> None, root |-> root, consumed |-> consumed]
        ELSE LET item == sequence[consumed + 1]
             IN  IF HashMap_contains(node.subtrees, item)
                 THEN get_by_shortest_prefix_loop(t, Append(root, item), sequence,
                                                  consumed + 1)
                 ELSE [result |-> None, root |-> root, consumed |-> consumed + 1]

\* lib.rs 41-59
get_by_shortest_prefix(t, sequence) ==
    get_by_shortest_prefix_loop(t, <<>>, sequence, 0)

\* lib.rs 107-114: the loop of get_exact_match and the final read.
RECURSIVE get_exact_match_loop(_, _, _, _)
get_exact_match_loop(t, root, sequence, consumed) ==
    IF consumed = Len(sequence)
    THEN [result |-> Deref(t, root).value, root |-> root, consumed |-> consumed]
    ELSE LET item == sequence[consumed + 1]
         IN  IF HashMap_contains(Deref(t, root).subtrees, item)
             THEN get_exact_match_loop(t, Append(root, item), sequence, consumed + 1)
             ELSE [result |-> None, root |-> root, consumed |-> consumed + 1]

\* get_exact_match with the loop of get_by_shortest_prefix.
get_exact_match_stops_at_value(t, sequence) ==
    get_by_shortest_prefix_loop(t, <<>>, sequence, 0)

\* lib.rs 102-115
get_exact_match(t, sequence) ==
    get_exact_match_loop(t, <<>>, sequence, 0)

(* ---------------------------- removal -------------------------------- *)

\* keys.into_iter() without .rev(): the prune loop gets the recorded pairs
\* root first.
Reverse_forgotten(s) == s

\* lib.rs 135: keys.into_iter().rev()
Reverse(s) == [i \in 1..Len(s) |-> s[Len(s) + 1 - i]]

\* prune_loop with a break after the first detach: the walk never goes on to
\* the parent's parent.
prune_loop_one_level(t, root, roots, iters, derefs) ==
    IF ~HashMap_is_empty(Deref(t, root).subtrees) \/ roots = <<>>
    THEN [tree |-> t, iters |-> iters + 1, derefs |-> Append(derefs, root),
          dangling |-> FALSE]
    ELSE LET parent == Head(roots)[1]
             item   == Head(roots)[2]
             node   == Deref(t, parent)
         IN  [tree |-> Store(t, parent,
                             [node EXCEPT !.subtrees = HashMap_remove(@, item)]),
              iters |-> iters + 1,
              derefs |-> Append(Append(derefs, root), parent),
              dangling |-> FALSE]

\* prune_loop without the test of line 147: an ancestor that holds a value
\* does not stop the walk.
RECURSIVE prune_loop_ignores_value(_, _, _, _, _)
prune_loop_ignores_value(t, root, roots, iters, derefs) ==
    IF ~HashMap_is_empty(Deref(t, root).subtrees) \/ roots = <<>>
    THEN [tree |-> t, iters |-> iters + 1, derefs |-> Append(derefs, root),
          dangling |-> FALSE]
    ELSE LET parent == Head(roots)[1]
             item   == Head(roots)[2]
             node   == Deref(t, parent)
         IN  prune_loop_ignores_value(
                 Store(t, parent, [node EXCEPT !.subtrees = HashMap_remove(@, item)]),
                 parent, Tail(roots), iters + 1,
                 Append(Append(derefs, root), parent))

\* prune_loop without the test of line 138: the node the descent stopped at
\* is detached even when it has subtrees.
RECURSIVE prune_loop_ignores_subtrees(_, _, _, _, _)
prune_loop_ignores_subtrees(t, root, roots, iters, derefs) ==
    IF roots = <<>>
    THEN [tree |-> t, iters |-> iters + 1, derefs |-> Append(derefs, root),
          dangling |-> FALSE]
    ELSE LET parent == Head(roots)[1]
             item   == Head(roots)[2]
             node   == Deref(t, parent)
             t1     == Store(t, parent,
                             [node EXCEPT !.subtrees = HashMap_remove(@, item)])
             seen   == Append(Append(derefs, root), parent)
         IN  IF is_some(Deref(t1, parent).value)
             THEN [tree |-> t1, iters |-> iters + 1, derefs |-> seen,
                   dangling |-> FALSE]
             ELSE prune_loop_ignores_subtrees(t1, parent, Tail(roots), iters + 1, seen)

\* prune_loop with the is_empty test of line 138 made once, before the loop:
\* an ancestor without a value is detached even when it has other children.
RECURSIVE prune_loop_ignores_siblings(_, _, _, _, _)
prune_loop_ignores_siblings(t, root, roots, iters, derefs) ==
    IF (iters = 0 /\ ~HashMap_is_empty(Deref(t, root).subtrees)) \/ roots = <<>>
    THEN [tree |-> t, iters |-> iters + 1, derefs |-> Append(derefs, root),
          dangling |-> FALSE]
    ELSE LET parent == Head(roots)[1]
             item   == Head(roots)[2]
             node   == Deref(t, parent)
             t1     == Store(t, parent,
                             [node EXCEPT !.subtrees = HashMap_remove(@, item)])
             seen   == Append(Append(derefs, root), parent)
         IN  IF is_some(Deref(t1, parent).value)
             THEN [tree |-> t1, iters |-> iters + 1, derefs |-> seen,
                   dangling |-> FALSE]
             ELSE prune_loop_ignores_siblings(t1, parent, Tail(roots), iters + 1, seen)

\* lib.rs 137-150 (and the identical 182-195): the prune loop.  root is the
\* raw pointer the loop holds, roots the iterator keys.into_iter().rev().
\* iters counts the passes through the loop body, derefs lists the pointers
\* the loop dereferenced, dangling says that one of them was not attached.
RECURSIVE prune_loop(_, _, _, _, _)
prune_loop(t, root, roots, iters, derefs) ==
    IF ~Attached(t, root)
    THEN [tree |-> t, iters |-> iters + 1, derefs |-> Append(derefs, root),
          dangling |-> TRUE]
    ELSE IF ~HashMap_is_empty(Deref(t, root).subtrees)
    THEN [tree |-> t, iters |-> iters + 1, derefs |-> Append(derefs, root),
          dangling |-> FALSE]
    ELSE IF roots = <<>>
    THEN [tree |-> t, iters |-> iters + 1, derefs |-> Append(derefs, root),
          dangling |-> FALSE]
    ELSE LET parent == Head(roots)[1]
             item   == Head(roots)[2]
             seen   == Append(Append(derefs, root), parent)
         IN  IF ~Attached(t, parent)
             THEN [tree |-> t, iters |-> iters + 1, derefs |-> seen,
                   dangling |-> TRUE]
             ELSE LET node == Deref(t, parent)
                      t1   == Store(t, parent,
                                    [node EXCEPT !.subtrees = HashMap_remove(@, item)])
                  IN  IF is_some(Deref(t1, parent).value)
                      THEN [tree |-> t1, iters |-> iters + 1, derefs |-> seen,
                            dangling |-> FALSE]
                      ELSE prune_loop(t1, parent, Tail(roots), iters + 1, seen)

\* extract_and_prune that reads the value without take(): the node keeps it.
extract_and_prune_no_take(t, root, keys, consumed) ==
    LET node == Deref(t, root)
        p    == prune_loop(t, root, Reverse(keys), 0, <<>>)
    IN  [tree |-> p.tree, result |-> node.value, found |-> TRUE, root |-> root,
         consumed |-> consumed, keys |-> keys, iters |-> p.iters,
         derefs |-> p.derefs, dangling |-> p.dangling]

\* extract_and_prune with *root = PrefixTree::new() in place of
\* root.value.take(): the subtrees of the node go with its value.
extract_and_prune_drops_subtrees(t, root, keys, consumed) ==
    LET node == Deref(t, root)
        t1   == Store(t, root, new)
        p    == prune_loop(t1, root, Reverse(keys), 0, <<>>)
    IN  [tree |-> p.tree, result |-> node.value, found |-> TRUE, root |-> root,
         consumed |-> consumed, keys |-> keys, iters |-> p.iters,
         derefs |-> p.derefs, dangling |-> p.dangling]

\* lib.rs 134-151 (and 179-196): take the value of the node the descent
\* stopped at, prune, return the value.
extract_and_prune(t, root, keys, consumed) ==
    LET node == Deref(t, root)
        t1   == Store(t, root, [node EXCEPT !.value = None])
        p    == prune_loop(t1, root, Reverse(keys), 0, <<>>)
    IN  [tree |-> p.tree, result |-> node.value, found |-> TRUE, root |-> root,
         consumed |-> consumed, keys |-> keys, iters |-> p.iters,
         derefs |-> p.derefs, dangling |-> p.dangling]

\* The early "return None" of a descent: nothing was written.
descent_failed(t, root, keys, consumed) ==
    [tree |-> t, result |-> None, found |-> FALSE, root |-> root,
     consumed |-> consumed, keys |-> keys, iters |-> 0, derefs |-> <<>>,
     dangling |-> FALSE]

\* lib.rs 124-133: the descent of remove_exact_match, recording
\* (old_root, item) for every step taken.
RECURSIVE remove_exact_match_descend(_, _, _, _, _)
remove_exact_match_descend(t, root, sequence, consumed, keys) ==
    IF consumed = Len(sequence)
    THEN [found |-> TRUE, root |-> root, consumed |-> consumed, keys |-> keys]
    ELSE LET item     == sequence[consumed + 1]
             old_root == root
         IN  IF HashMap_contains(Deref(t, root).subtrees, item)
             THEN remove_exact_match_descend(t, Append(root, item), sequence,
                                             consumed + 1,
                                             Append(keys, <<old_root, item>>))
             ELSE [found |-> FALSE, root |-> root, consumed |-> consumed + 1,
                   keys |-> keys]

\* lib.rs 119-152
remove_exact_match(t, sequence) ==
    LET d == remove_exact_match_descend(t, <<>>, sequence, 0, <<>>)
    IN  IF d.found THEN extract_and_prune(t, d.root, d.keys, d.consumed)
        ELSE descent_failed(t, d.root, d.keys, d.consumed)

\* remove_by_shortest_prefix_descend that calls sequence.next() and descends
\* before it looks at the value of the node: a node is the target only when
\* the descent cannot go on from it.
RECURSIVE remove_by_shortest_prefix_descend_next_first(_, _, _, _, _)
remove_by_shortest_prefix_descend_next_first(t, root, sequence, consumed, keys) ==
    IF /\ consumed < Len(sequence)
       /\ HashMap_contains(Deref(t, root).subtrees, sequence[consumed + 1])
    THEN remove_by_shortest_prefix_descend_next_first(
             t, Append(root, sequence[consumed + 1]), sequence, consumed + 1,
             Append(keys, <<root, sequence[consumed + 1]>>))
    ELSE [found |-> is_some(Deref(t, root).value), root |-> root,
          consumed |-> IF consumed < Len(sequence) THEN consumed + 1 ELSE consumed,
          keys |-> keys]

\* lib.rs 161-178: the descent of remove_by_shortest_prefix.
RECURSIVE remove_by_shortest_prefix_descend(_, _, _, _, _)
remove_by_shortest_prefix_descend(t, root, sequence, consumed, keys) ==
    IF is_some(Deref(t, root).value)
    THEN [found |-> TRUE, root |-> root, consumed |-> consumed, keys |-> keys]
    ELSE IF consumed = Len(sequence)
    THEN [found |-> FALSE, root |-> root, consumed |-> consumed, keys |-> keys]
    ELSE LET item     == sequence[consumed + 1]
             old_root == root
         IN  IF HashMap_contains(Deref(t, root).subtrees, item)
             THEN remove_by_shortest_prefix_descend(t, Append(root, item), sequence,
                                                    consumed + 1,
                                                    Append(keys, <<old_root, item>>))
             ELSE [found |-> FALSE, root |-> root, consumed |-> consumed + 1,
                   keys |-> keys]

\* remove_by_shortest_prefix whose descent uses entry(item).or_insert_with as
\* insert does: a failed descent leaves the nodes it created.
remove_by_shortest_prefix_creates(t, sequence) ==
    LET d == remove_by_shortest_prefix_descend(t, <<>>, sequence, 0, <<>>)
    IN  IF d.found THEN extract_and_prune(t, d.root, d.keys, d.consumed)
        ELSE descent_failed(insert_walk(t, <<>>, Prefix(sequence, d.consumed)).tree,
                            d.root, d.keys, d.consumed)

\* remove_by_shortest_prefix with the body of remove_exact_match.
remove_by_shortest_prefix_exact(t, sequence) ==
    LET d == remove_exact_match_descend(t, <<>>, sequence, 0, <<>>)
    IN  IF d.found THEN extract_and_prune(t, d.root, d.keys, d.consumed)
        ELSE descent_failed(t, d.root, d.keys, d.consumed)

\* lib.rs 156-197
remove_by_shortest_prefix(t, sequence) ==
    LET d == remove_by_shortest_prefix_descend(t, <<>>, sequence, 0, <<>>)
    IN  IF d.found THEN extract_and_prune(t, d.root, d.keys, d.consumed)
        ELSE descent_failed(t, d.root, d.keys, d.consumed)

(* ---------------------------- the state machine ---------------------- *)

VARIABLES
    tree,   \* the PrefixTree the calls are made on
    map,    \* what the calls so far mean for a map from sequences to values
    last    \* the last call: its arguments, what it returned, what it did

vars == <<tree, map, last>>

\* The sequences that hold a value in t, as get_exact_match reports them.
Stored(t) == {s \in Seqs : is_some(get_exact_match(t, s).result)}

\* Lengths of the prefixes of q that hold a value in the map m.
ValuedPrefixLengths(m, q) == {n \in 0..Len(q) : is_some(m[Prefix(q, n)])}

Min(S) == CHOOSE n \in S : \A k \in S : n <= k

\* What is left in a cursor over seq after `consumed` calls of next().
Remaining(seq, consumed) == SubSeq(seq, consumed + 1, Len(seq))

Call(op, seq, value, r) ==
    [op |-> op, seq |-> seq, value |-> value, result |-> r.result,
     found |-> r.found, root |-> r.root, consumed |-> r.consumed,
     keys |-> r.keys, iters |-> r.iters, derefs |-> r.derefs,
     dangling |-> r.dangling]

NoWalk == [found |-> TRUE, root |-> <<>>, consumed |-> 0, keys |-> <<>>,
           iters |-> 0, derefs |-> <<>>, dangling |-> FALSE, result |-> None]

\* A write through a dangling pointer is undefined behaviour: the tree it
\* leaves is not determined by the program.
Outcomes(r) == IF r.dangling THEN {r.tree, new} ELSE {r.tree}

Init ==
    /\ tree = new
    /\ map = [s \in Seqs |-> None]
    /\ last = Call("new", <<>>, None, NoWalk)

Insert ==
    \E s \in Seqs, v \in Values :
        /\ \/ s \in Stored(tree)
           \/ Cardinality(Stored(tree)) < MaxStored
        /\ LET r == insert(tree, s, v)
           IN  /\ tree' = r.tree
               /\ last' = Call("insert", s, Some(v),
                               [NoWalk EXCEPT !.result = r.result, !.root = r.root,
                                              !.consumed = Len(s)])
        /\ map' = [map EXCEPT ![s] = Some(v)]

GetExactMatch ==
    \E s \in Seqs :
        /\ last' = Call("get_exact_match", s, None,
                        [NoWalk EXCEPT !.result = get_exact_match(tree, s).result,
                                       !.root = get_exact_match(tree, s).root,
                                       !.consumed = get_exact_match(tree, s).consumed,
                                       !.found = is_some(get_exact_match(tree, s).result)])
        /\ UNCHANGED <<tree, map>>

GetByShortestPrefix ==
    \E q \in Seqs :
        /\ LET r == get_by_shortest_prefix(tree, q)
           IN  last' = Call("get_by_shortest_prefix", q, None,
                            [NoWalk EXCEPT !.result = r.result, !.root = r.root,
                                           !.consumed = r.consumed,
                                           !.found = is_some(r.result)])
        /\ UNCHANGED <<tree, map>>

RemoveExactMatch ==
    \E s \in Seqs :
        /\ LET r == remove_exact_match(tree, s)
           IN  /\ tree' \in Outcomes(r)
               /\ last' = Call("remove_exact_match", s, None, r)
        /\ map' = [map EXCEPT ![s] = None]

RemoveByShortestPrefix ==
    \E q \in Seqs :
        /\ LET r == remove_by_shortest_prefix(tree, q)
           IN  /\ tree' \in Outcomes(r)
               /\ last' = Call("remove_by_shortest_prefix", q, None, r)
        /\ map' = IF ValuedPrefixLengths(map, q) = {} THEN map
                  ELSE [map EXCEPT ![Prefix(q, Min(ValuedPrefixLengths(map, q)))] = None]

Next ==
    \/ Insert
    \/ GetExactMatch
    \/ GetByShortestPrefix
    \/ RemoveExactMatch
    \/ RemoveByShortestPrefix

Spec == Init /\ [][Next]_vars

(* ---------------------------- properties ----------------------------- *)

Max(S) == CHOOSE n \in S : \A k \in S : k <= n

IsRemoval(c) == c.op \in {"remove_exact_match", "remove_by_shortest_prefix"}

\* No node below t is dead (value None and no subtrees).
RECURSIVE NoDeadBelow(_)
NoDeadBelow(t) ==
    \A k \in DOMAIN t.subtrees :
        LET c == t.subtrees[k]
        IN  /\ is_some(c.value) \/ ~HashMap_is_empty(c.subtrees)
            /\ NoDeadBelow(c)

\* C1 (invariant I1): when a call has returned, every node other than the
\* root holds a value or has at least one child.
C1_NoDeadLeaves == NoDeadBelow(tree)

\* A removal took a value, pruned at least one node, and nodes are left.
C1_Witness ==
    /\ IsRemoval(last)
    /\ is_some(last.result)
    /\ last.iters >= 2
    /\ ~HashMap_is_empty(tree.subtrees)

\* Lengths n < Len(s) of the prefixes of s whose node in t holds a value or
\* has a child that is not the next node of the path s; the root always counts.
Anchors(t, s) ==
    {0} \cup {n \in 0..(Len(s) - 1) :
                 LET node == Deref(t, Prefix(s, n))
                 IN  \/ is_some(node.value)
                     \/ DOMAIN node.subtrees # {s[n + 1]}}

\* t with the child s[n+1] of the node at the prefix of length n detached.
Detached(t, s, n) ==
    LET node == Deref(t, Prefix(s, n))
    IN  Store(t, Prefix(s, n), [node EXCEPT !.subtrees = HashMap_remove(@, s[n + 1])])

abc == <<"a", "b", "c">>

\* C2 (pruning after deep removal): when remove_exact_match(s) takes the
\* value of a node without children, the nodes of the path of s below the
\* nearest ancestor that holds a value or has another child (or below the
\* root, if there is none) are detached, that ancestor and the nodes above it
\* stay, and nothing else changes.  Removing "abc" from the tree that holds
\* only "abc" leaves PrefixTree::new(); if "a" is held too, "a" survives with
\* its value and no children.
C2_DeepPrune ==
    [][(/\ last'.op = "remove_exact_match"
        /\ is_some(last'.result)
        /\ HashMap_is_empty(Deref(tree, last'.seq).subtrees))
       => LET s == last'.seq
              a == Max(Anchors(tree, s))
          IN  /\ \A n \in 0..Len(s) : Attached(tree', Prefix(s, n)) <=> n <= a
              /\ tree' = IF s = <<>> THEN [tree EXCEPT !.value = None]
                         ELSE Detached(tree, s, a)
              /\ (s = abc /\ Stored(tree) = {abc}) => tree' = new
              /\ (s = abc /\ Stored(tree) = {abc, <<"a">>})
                     => tree' = [value |-> None,
                                 subtrees |-> HashMap_insert(HashMap_new, "a",
                                     [value |-> tree.subtrees["a"].value,
                                      subtrees |-> HashMap_new])]
      ]_vars

\* "abc" was removed from a tree that also held "a": "a" is still held, the
\* nodes of "ab" and "abc" are gone.
C2_Witness ==
    /\ last.op = "remove_exact_match"
    /\ last.seq = abc
    /\ is_some(last.result)
    /\ Stored(tree) = {<<"a">>}
    /\ ~Attached(tree, <<"a", "b">>)
    /\ last.iters = 2

\* Lengths of the prefixes of q that hold a value in t, as get_exact_match
\* reports them.
HeldPrefixLengths(t, q) ==
    {n \in 0..Len(q) : is_some(get_exact_match(t, Prefix(q, n)).result)}

\* The addresses of the nodes of t.
RECURSIVE Nodes(_)
Nodes(t) ==
    {<<>>} \cup UNION {{<<k>> \o p : p \in Nodes(t.subtrees[k])} :
                          k \in DOMAIN t.subtrees}

\* C3 (failed exact removal is a no-op): remove_exact_match(s) on a tree
\* that holds no value at s returns None and leaves the tree equal to the tree
\* before the call.
C3_FailedExactRemovalNoOp ==
    [][(/\ last'.op = "remove_exact_match"
        /\ ~is_some(get_exact_match(tree, last'.seq).result))
       => /\ last'.result = None
          /\ tree' = tree
      ]_vars

\* remove_exact_match was called on a node below the root that is there but
\* holds no value.
C3_Witness ==
    /\ last.op = "remove_exact_match"
    /\ last.found
    /\ last.result = None
    /\ last.seq # <<>>
    /\ last.iters = 1

\* C4 (failed shortest-prefix removal is a no-op): remove_by_shortest_prefix(q)
\* on a tree in which no prefix of q, the empty one included, holds a value
\* returns None and leaves the tree equal to the tree before the call.
C4_FailedPrefixRemovalNoOp ==
    [][(/\ last'.op = "remove_by_shortest_prefix"
        /\ HeldPrefixLengths(tree, last'.seq) = {})
       => /\ last'.result = None
          /\ ~last'.found
          /\ tree' = tree
      ]_vars

\* remove_by_shortest_prefix failed on a missing child after it had descended
\* at least one node, in a tree that holds values.
C4_Witness ==
    /\ last.op = "remove_by_shortest_prefix"
    /\ ~last.found
    /\ last.root # <<>>
    /\ last.consumed = Len(last.root) + 1
    /\ Stored(tree) # {}

\* C5 (the tree refines a map): for every sequence s, get_exact_match(s)
\* returns the value of the last insert at s unless a later removal took the
\* value at s, and None otherwise; every node lies on a path that was inserted.
C5_RefinesMap ==
    /\ \A s \in Seqs : get_exact_match(tree, s).result = map[s]
    /\ Nodes(tree) \subseteq Seqs

\* remove_by_shortest_prefix took the value of a proper prefix of its query
\* and a longer prefix of the query still holds its value.
C5_Witness ==
    /\ last.op = "remove_by_shortest_prefix"
    /\ is_some(last.result)
    /\ last.consumed < Len(last.seq)
    /\ \E n \in (last.consumed + 1)..Len(last.seq) : is_some(map[Prefix(last.seq, n)])

\* C6 (removal round trip): remove_exact_match(s) right after insert(s, v)
\* returns Some(v), and get_exact_match(s) then returns None.
C6_RemovalRoundTrip ==
    [][(/\ last.op = "insert"
        /\ last'.op = "remove_exact_match"
        /\ last'.seq = last.seq)
       => /\ last'.result = last.value
          /\ get_exact_match(tree', last.seq).result = None
      ]_vars

\* A value was removed at "ab" and the node of "ab" stays, as "abc" holds one.
C6_Witness ==
    /\ last.op = "remove_exact_match"
    /\ last.seq = <<"a", "b">>
    /\ is_some(last.result)
    /\ get_exact_match(tree, last.seq).result = None
    /\ get_exact_match(tree, last.seq).consumed = 2
    /\ is_some(get_exact_match(tree, abc).result)

\* C7 (round trip): get_exact_match(s) right after insert(s, v) returns
\* Some(v), for every s, the empty sequence included.
C7_RoundTrip ==
    last.op = "insert" => get_exact_match(tree, last.seq).result = last.value

\* A value was inserted at "abc" in a tree whose root holds a value.
C7_Witness ==
    /\ last.op = "insert"
    /\ last.seq = abc
    /\ is_some(tree.value)

\* C8 (overwrite): insert(s, v) returns the value held at s before the call,
\* None if there was none; the second of two inserts at the same sequence
\* returns the value of the first, get_exact_match(s) then returns the second
\* value, and the second insert adds no node.
C8_Overwrite ==
    [][(last'.op = "insert")
       => /\ last'.result = get_exact_match(tree, last'.seq).result
          /\ (last.op = "insert" /\ last.seq = last'.seq)
                 => /\ last'.result = last.value
                    /\ get_exact_match(tree', last'.seq).result = last'.value
                    /\ Nodes(tree') = Nodes(tree)
      ]_vars

\* An insert replaced a different value.
C8_Witness ==
    /\ last.op = "insert"
    /\ is_some(last.result)
    /\ last.result # last.value
    /\ get_exact_match(tree, last.seq).result = last.value

\* C9 (shortest-prefix precedence): get_by_shortest_prefix(q) returns the
\* value held at the shortest prefix of q that holds one, None if no prefix of
\* q holds a value.  With "a" and "ab" held and no value at the root,
\* get_by_shortest_prefix("abc") is the value of "a" and
\* get_by_shortest_prefix("b") is None unless "b" is held; when the root holds
\* a value every query returns it.
C9_ShortestPrefix ==
    /\ last.op = "get_by_shortest_prefix"
         => LET L == HeldPrefixLengths(tree, last.seq)
            IN  last.result = IF L = {} THEN None
                              ELSE get_exact_match(tree, Prefix(last.seq, Min(L))).result
    /\ (last.op = "get_by_shortest_prefix" /\ is_some(tree.value))
         => last.result = tree.value
    /\ (/\ last.op = "get_by_shortest_prefix"
        /\ {<<"a">>, <<"a", "b">>} \subseteq Stored(tree)
        /\ ~is_some(tree.value))
         => /\ last.seq = abc => last.result = get_exact_match(tree, <<"a">>).result
            /\ (last.seq = <<"b">> /\ <<"b">> \notin Stored(tree)) => last.result = None

\* get_by_shortest_prefix("abc") returned the value of "a" though "ab" holds
\* a value too.
C9_Witness ==
    /\ last.op = "get_by_shortest_prefix"
    /\ last.seq = abc
    /\ last.root = <<"a">>
    /\ is_some(last.result)
    /\ is_some(get_exact_match(tree, <<"a", "b">>).result)

\* C10 (partial consumption): when get_by_shortest_prefix or
\* remove_by_shortest_prefix matches at a prefix of length n of its cursor,
\* exactly n elements were consumed and the rest of the cursor is left, in
\* order: a match at "a" of "abc" leaves "bc", a match at the root all of "abc".
C10_PartialConsumption ==
    [][(/\ last'.op \in {"get_by_shortest_prefix", "remove_by_shortest_prefix"}
        /\ is_some(last'.result))
       => LET q == last'.seq
              n == Min(HeldPrefixLengths(tree, q))
          IN  /\ last'.consumed = n
              /\ Remaining(q, last'.consumed) = SubSeq(q, n + 1, Len(q))
              /\ (q = abc /\ n = 1) => Remaining(q, last'.consumed) = <<"b", "c">>
              /\ (q = abc /\ n = 0) => Remaining(q, last'.consumed) = abc
      ]_vars

\* remove_by_shortest_prefix matched at "a" from the cursor "abc": "bc" is left.
C10_Witness ==
    /\ last.op = "remove_by_shortest_prefix"
    /\ last.seq = abc
    /\ is_some(last.result)
    /\ last.root = <<"a">>
    /\ Remaining(last.seq, last.consumed) = <<"b", "c">>

\* Does the removal call c find a value to take in the tree t?
Holds(t, c) ==
    IF c.op = "remove_exact_match" THEN is_some(get_exact_match(t, c.seq).result)
    ELSE HeldPrefixLengths(t, c.seq) # {}

\* The address of the node whose value the removal call c is to take in t:
\* the sequence itself, or its shortest prefix that holds a value.
TargetOf(t, c) ==
    IF c.op = "remove_exact_match" THEN c.seq
    ELSE Prefix(c.seq, Min(HeldPrefixLengths(t, c.seq)))

\* The HashMap with the one entry k -> n.
Only(k, n) == HashMap_insert(HashMap_new, k, n)

\* C11 (a node with children is never deleted): a removal that takes the
\* value of a node with a non-empty subtrees map leaves that node in place
\* with value None, and its subtree and every other node as they were.  With
\* "", "a" and "abc" held, remove_exact_match("a") leaves
\* root Some -> 'a' None -> 'b' None -> 'c' Some.
C11_KeepsNodeWithChildren ==
    [][(/\ IsRemoval(last')
        /\ Holds(tree, last')
        /\ ~HashMap_is_empty(Deref(tree, TargetOf(tree, last')).subtrees))
       => LET p    == TargetOf(tree, last')
              node == Deref(tree, p)
          IN  /\ last'.result = node.value
              /\ Attached(tree', p)
              /\ Deref(tree', p).value = None
              /\ Deref(tree', p).subtrees = node.subtrees
              /\ tree' = Store(tree, p, [node EXCEPT !.value = None])
              /\ (/\ last'.op = "remove_exact_match"
                  /\ p = <<"a">>
                  /\ Stored(tree) = {<<>>, <<"a">>, abc})
                     => tree' = [value |-> tree.value,
                                 subtrees |-> Only("a",
                                   [value |-> None,
                                    subtrees |-> Only("b",
                                      [value |-> None,
                                       subtrees |-> Only("c",
                                         [value |-> Deref(tree, abc).value,
                                          subtrees |-> HashMap_new])])])]
      ]_vars

\* remove_exact_match("a") took a value from the tree that held "", "a" and
\* "abc": the node of "a" is still there, without a value.
C11_Witness ==
    /\ last.op = "remove_exact_match"
    /\ last.seq = <<"a">>
    /\ is_some(last.result)
    /\ Stored(tree) = {<<>>, abc}
    /\ Attached(tree, <<"a">>)
    /\ Deref(tree, <<"a">>).value = None

\* C12 (root exemption): when the root holds a value,
\* remove_by_shortest_prefix(q) returns it for every q, consumes nothing,
\* sets the root's value to None and changes nothing else; and a removal that
\* takes the last value of the tree leaves the root, equal to
\* PrefixTree::new().
C12_RootExemption ==
    [][/\ (last'.op = "remove_by_shortest_prefix" /\ is_some(tree.value))
          => /\ last'.result = tree.value
             /\ last'.consumed = 0
             /\ tree' = [tree EXCEPT !.value = None]
             /\ tree'.subtrees = tree.subtrees
       /\ (/\ IsRemoval(last')
           /\ Holds(tree, last')
           /\ Stored(tree) = {TargetOf(tree, last')})
          => tree' = new
      ]_vars

\* remove_by_shortest_prefix("abc") took the value of the root and left the
\* chain down to "abc" as it was.
C12_Witness ==
    /\ last.op = "remove_by_shortest_prefix"
    /\ last.seq = abc
    /\ last.consumed = 0
    /\ is_some(last.result)
    /\ tree.value = None
    /\ Stored(tree) = {abc}

\* Is r a prefix of p (is the node at r on the path to the node at p)?
IsPrefix(r, p) == Len(r) <= Len(p) /\ Prefix(p, Len(r)) = r

\* C13 (pruning stopping rule): when a removal takes the value of a node
\* without children, the walk detaches the nodes of the path below the first
\* ancestor that, without the emptied child, holds a value or has other
\* children (or below the root); that ancestor loses only this child, every
\* node above it keeps its value and its children, and every node that is not
\* on the path is unchanged.  With "ab" and "ac" held, removing "ab" deletes
\* only the node of "ab" and keeps "a" with its child 'c'.
C13_StoppingRule ==
    [][(/\ IsRemoval(last')
        /\ Holds(tree, last')
        /\ HashMap_is_empty(Deref(tree, TargetOf(tree, last')).subtrees))
       => LET p == TargetOf(tree, last')
              a == Max(Anchors(tree, p))
          IN  /\ \A n \in 1..Len(p) : Attached(tree', Prefix(p, n)) <=> n <= a
              /\ \A n \in 0..a :
                     n < Len(p)
                     => LET old == Deref(tree, Prefix(p, n))
                            now == Deref(tree', Prefix(p, n))
                        IN  /\ now.value = old.value
                            /\ DOMAIN now.subtrees =
                                   IF n = a THEN DOMAIN old.subtrees \ {p[a + 1]}
                                   ELSE DOMAIN old.subtrees
              /\ \A r \in Nodes(tree) :
                     ~IsPrefix(r, p)
                     => Attached(tree', r) /\ Deref(tree', r) = Deref(tree, r)
              /\ Nodes(tree') \subseteq Nodes(tree)
              /\ (p = <<"a", "b">> /\ Stored(tree) = {<<"a", "b">>, <<"a", "c">>})
                     => /\ Nodes(tree') = {<<>>, <<"a">>, <<"a", "c">>}
                        /\ Deref(tree', <<"a">>) = [value |-> None,
                               subtrees |-> Only("c", Deref(tree, <<"a", "c">>))]
      ]_vars

\* remove_by_shortest_prefix took the value of "ab" while "ac" held one: the
\* node of "ab" is gone, "a" is left without a value and with its child 'c'.
C13_Witness ==
    /\ last.op = "remove_by_shortest_prefix"
    /\ last.root = <<"a", "b">>
    /\ is_some(last.result)
    /\ Stored(tree) = {<<"a", "c">>}
    /\ Nodes(tree) = {<<>>, <<"a">>, <<"a", "c">>}
    /\ last.iters = 2

\* C14 (shortest-prefix removal mirrors shortest-prefix lookup):
\* remove_by_shortest_prefix(q) returns what get_by_shortest_prefix(q) returns
\* on the tree before the call, None exactly when the lookup returns None, and
\* it stops at the same node with the same number of elements consumed.
C14_RemovalMirrorsLookup ==
    [][(last'.op = "remove_by_shortest_prefix")
       => LET g == get_by_shortest_prefix(tree, last'.seq)
          IN  /\ last'.result = g.result
              /\ last'.found = is_some(g.result)
              /\ last'.root = g.root
              /\ last'.consumed = g.consumed
      ]_vars

\* remove_by_shortest_prefix("abc") stopped at "ab" with two elements
\* consumed and took the value there.
C14_Witness ==
    /\ last.op = "remove_by_shortest_prefix"
    /\ last.seq = abc
    /\ last.root = <<"a", "b">>
    /\ last.consumed = 2
    /\ is_some(last.result)
    /\ last.keys = <<<< <<>>, "a" >>, << <<"a">>, "b" >>>>

\* C15 (a successful remove_by_shortest_prefix(q) removes one value): it
\* takes the value at the shortest prefix p of q that holds one; afterwards
\* get_exact_match(p) is None, get_exact_match returns for every other
\* sequence, the longer prefixes of q included, what it returned before, and
\* get_by_shortest_prefix(q) returns the value at the next-shortest prefix of
\* q that holds one, None if there is none.
C15_RemovesOnlyShortest ==
    [][(last'.op = "remove_by_shortest_prefix" /\ Holds(tree, last'))
       => LET q    == last'.seq
              L    == HeldPrefixLengths(tree, q)
              p    == Prefix(q, Min(L))
              rest == L \ {Min(L)}
          IN  /\ last'.result = get_exact_match(tree, p).result
              /\ get_exact_match(tree', p).result = None
              /\ \A s \in Seqs \ {p} :
                     get_exact_match(tree', s).result = get_exact_match(tree, s).result
              /\ get_by_shortest_prefix(tree', q).result =
                     IF rest = {} THEN None
                     ELSE get_exact_match(tree, Prefix(q, Min(rest))).result
      ]_vars

\* remove_by_shortest_prefix("abc") took the value of "a"; "ab" and "abc"
\* still hold theirs, and the next lookup of "abc" stops at "ab".
C15_Witness ==
    /\ last.op = "remove_by_shortest_prefix"
    /\ last.seq = abc
    /\ last.root = <<"a">>
    /\ is_some(last.result)
    /\ Stored(tree) = {<<"a", "b">>, abc}
    /\ get_by_shortest_prefix(tree, abc).root = <<"a", "b">>

\* C16 (no dangling state in the backtracking walk): in a removal, every
\* pointer the prune loop dereferences refers to a node that is attached to
\* the tree at that moment; the walk only moves towards the root, so a
\* detached node is never touched again; and the pair (ancestor, key) taken
\* from the recorded path in each pass names the parent of the node just
\* examined and the key under which that node is stored.
C16_NoDangling ==
    (IsRemoval(last) /\ last.found)
    => /\ ~last.dangling
       /\ Len(last.keys) = Len(last.root)
       /\ \A i \in 1..Len(last.keys) :
              last.keys[i] = <<Prefix(last.root, i - 1), last.root[i]>>
       /\ Len(last.derefs) >= 1
       /\ last.derefs[1] = last.root
       /\ \A i \in 1..Len(last.derefs) : IsPrefix(last.derefs[i], last.root)
       /\ \A i, j \in 1..Len(last.derefs) :
              i < j => Len(last.derefs[j]) <= Len(last.derefs[i])
       /\ \A k \in 1..(Len(last.derefs) \div 2) :
              LET pair == last.keys[Len(last.keys) + 1 - k]
              IN  /\ last.derefs[2 * k] = pair[1]
                  /\ last.derefs[2 * k - 1] = Append(pair[1], pair[2])
       /\ \A i \in 1..Len(last.derefs) :
              ~Attached(tree, last.derefs[i])
              => \A j \in 1..Len(last.derefs) :
                     Len(last.derefs[j]) < Len(last.derefs[i]) => i < j

\* The prune loop went from "abc" through "ab" to "a", detached the nodes of
\* "abc" and "ab" and stopped at "a", which holds a value.
C16_Witness ==
    /\ IsRemoval(last)
    /\ last.derefs = <<abc, <<"a", "b">>, <<"a", "b">>, <<"a">>>>
    /\ ~Attached(tree, <<"a", "b">>)
    /\ Attached(tree, <<"a">>)
    /\ ~last.dangling

\* The number of passes the stopping rule gives the prune loop for the node
\* at p in t (its value taken): one if the node has children; otherwise one
\* per node detached, plus one more pass unless the walk ends at an ancestor
\* that holds a value.
PassesDue(t, p) ==
    IF ~HashMap_is_empty(Deref(t, p).subtrees) THEN 1
    ELSE LET a == Max(Anchors(t, p))
         IN  (Len(p) - a)
             + (IF a < Len(p) /\ is_some(Deref(t, Prefix(p, a)).value) THEN 0 ELSE 1)

\* C17 (every operation terminates on a finite sequence): a descent takes at
\* most one step per element of the sequence and consumes no more than the
\* sequence; the prune loop of a removal makes at most one pass per recorded
\* path element plus one, exactly as many as the stopping rule asks for, and
\* ends by a break at a node that has children, by a break at an ancestor
\* that holds a value, or with the recorded path exhausted at the root.
C17_BoundedWalks ==
    [][/\ last'.consumed <= Len(last'.seq)
       /\ Len(last'.root) <= last'.consumed
       /\ IsPrefix(last'.root, last'.seq)
       /\ last'.consumed <= Len(last'.root) + 1
       /\ last'.found => last'.consumed = Len(last'.root)
       /\ (IsRemoval(last') /\ ~last'.found) => last'.iters = 0 /\ last'.derefs = <<>>
       /\ (IsRemoval(last') /\ last'.found)
          => LET n == Len(last'.derefs)
                 e == last'.derefs[n]
             IN  /\ Len(last'.keys) = Len(last'.root)
                 /\ last'.iters >= 1
                 /\ last'.iters <= Len(last'.keys) + 1
                 /\ last'.iters = PassesDue(tree, last'.root)
                 /\ last'.iters = (n + 1) \div 2
                 /\ \/ n % 2 = 1 /\ ~HashMap_is_empty(Deref(tree', e).subtrees)
                    \/ n % 2 = 0 /\ is_some(Deref(tree', e).value)
                    \/ n % 2 = 1 /\ e = <<>> /\ last'.iters = Len(last'.keys) + 1
      ]_vars

\* The prune loop of a removal of "abc" made four passes: three detached the
\* nodes of "abc", "ab" and "a", the fourth found the recorded path
\* exhausted at the root.
C17_Witness ==
    /\ IsRemoval(last)
    /\ last.root = abc
    /\ last.iters = 4
    /\ Len(last.keys) = 3
    /\ last.derefs[Len(last.derefs)] = <<>>
    /\ HashMap_is_empty(tree.subtrees)

====
